---- MODULE Spec2Model ----
(***************************************************************************)
(* A model of the Seeking Alpha connector, seekingalphad89ba32s:           *)
(* the date normaliser, the age filter, the article extractor's body and   *)
(* author handling, the parameter reader, and the generator pipeline       *)
(* query -> request_entries_with_timeout -> parse_entry_for_elements ->    *)
(* request_content_with_timeout.                                           *)
(*                                                                         *)
(* Text is modelled as a sequence of one-character strings, so that        *)
(* stripping, matching, formatting and parsing are computed, not assumed.  *)
(* Time is counted in ticks of 1/TicksPerSecond second since               *)
(* EpochYear-01-01T00:00:00.                                               *)
(***************************************************************************)
EXTENDS Integers, Sequences, FiniteSets, TLC

VARIABLES
    \* ---- the pipeline (one invocation of query) ----
    pc,                        \* where the generator chain stands
    parameters,                \* the caller's argument of query
    listing,                   \* the listing page as the site serves it
    cards,                     \* _cards: the anchors found on the listing page
    idx,                       \* position of the for loop of parse_entry_for_elements
    yielded_items,             \* query's counter
    max_oldness_seconds,       \* resolved configuration
    maximum_items_to_collect,
    min_post_length,
    output,                    \* what the caller has received so far
    fetchLog,                  \* article fetches made so far, in order
    stopReason,                \* why the generator chain ended
    raised,                    \* an exception reached the caller
    now,                       \* the wall clock, in ticks
    \* ---- one call of a pure function ----
    arg,                       \* its input
    ret,                       \* its result
    returned                   \* whether it has been applied

vars == << pc, parameters, listing, cards, idx, yielded_items,
           max_oldness_seconds, maximum_items_to_collect, min_post_length,
           output, fetchLog, stopReason, raised, now, arg, ret, returned >>

pipelineVars == << pc, parameters, listing, cards, idx, yielded_items,
                   max_oldness_seconds, maximum_items_to_collect, min_post_length,
                   output, fetchLog, stopReason, raised >>

(***************************************************************************)
(* Bounds of the model.                                                    *)
(***************************************************************************)
MaxYearSpan == 1        \* dates range over EpochYear .. EpochYear + MaxYearSpan
MaxBudget == 3          \* age budgets 0 .. MaxBudget in the age filter's own check
MaxLate == 5            \* clock values up to MaxLate ticks past the budget
MaxChildren == 4        \* children of the content container
MaxNameLen == 3         \* characters of an author's name
MaxValue == 2           \* option values 0 .. MaxValue in the caller's mapping
MaxLinks == 4           \* anchors on the listing page
MaxCap == 3             \* caller-supplied maximum_items_to_collect 0 .. MaxCap
MaxElapsed == 1         \* seconds the clock may advance during one invocation
MaxFaults == 1          \* links of a listing that are unreachable or malformed

(***************************************************************************)
(* Program constants.                                                      *)
(***************************************************************************)
DEFAULT_OLDNESS_SECONDS == 360
DEFAULT_MAXIMUM_ITEMS == 25
DEFAULT_MIN_POST_LENGTH == 10
ET_OFFSET_HOURS == 4
TEST_OLDNESS_SECONDS == 12000
EpochYear == 2023
TicksPerSecond == 2

(***************************************************************************)
(* Characters and text.                                                    *)
(***************************************************************************)
DigitChars == << "0", "1", "2", "3", "4", "5", "6", "7", "8", "9" >>

\* 0 <= n < 10^w rendered in decimal, zero-padded to w characters (%Y, %m, %d, ...)
Digits(n, w) == [i \in 1..w |-> DigitChars[((n \div (10 ^ (w - i))) % 10) + 1]]

IsDigit(c) == \E d \in 1..10 : DigitChars[d] = c

DigitValue(c) == (CHOOSE d \in 1..10 : DigitChars[d] = c) - 1

\* the decimal number that two or four digit characters spell
Number(s) ==
    IF Len(s) = 2
    THEN 10 * DigitValue(s[1]) + DigitValue(s[2])
    ELSE 1000 * DigitValue(s[1]) + 100 * DigitValue(s[2])
         + 10 * DigitValue(s[3]) + DigitValue(s[4])

(***************************************************************************)
(* The calendar of datetime.                                               *)
(***************************************************************************)
MonthAbbr == << "Jan", "Feb", "Mar", "Apr", "May", "Jun",
                "Jul", "Aug", "Sep", "Oct", "Nov", "Dec" >>

IsLeap(y) == y % 4 = 0 /\ (y % 100 # 0 \/ y % 400 = 0)

DaysInMonth(y, m) ==
    IF m = 2 THEN (IF IsLeap(y) THEN 29 ELSE 28)
    ELSE IF m \in {4, 6, 9, 11} THEN 30 ELSE 31

\* days of year y before its month m (m = 13: the days of the whole year)
DaysBeforeMonth(y, m) ==
    << 0, 31, 59, 90, 120, 151, 181, 212, 243, 273, 304, 334, 365 >>[m]
    + (IF m > 2 /\ IsLeap(y) THEN 1 ELSE 0)

\* leap years among the years 1 .. y - 1
LeapsBefore(y) == ((y - 1) \div 4) - ((y - 1) \div 100) + ((y - 1) \div 400)

\* days from EpochYear-01-01 to y-01-01, y >= EpochYear
DaysBeforeYear(y) == 365 * (y - EpochYear) + LeapsBefore(y) - LeapsBefore(EpochYear)

\* seconds from the epoch to the naive datetime dt (datetime subtraction)
Timestamp(dt) ==
    (DaysBeforeYear(dt.year) + DaysBeforeMonth(dt.year, dt.month) + (dt.day - 1)) * 86400
    + dt.hour * 3600 + dt.minute * 60 + dt.second

(***************************************************************************)
(* Results of a call: a value, or an exception on its way up.              *)
(***************************************************************************)
Return(v) == [exc |-> "", val |-> v]

Raise(e) == [exc |-> e, val |-> << >>]

(***************************************************************************)
(* DateNormalizer.  A site date "Jul. 18, 2023 8:13 AM ET" is the record   *)
(* of its elements [mon, day, year, hour, minute, ampm] and the text that  *)
(* trails them (rest, " ET" on the site).                                  *)
(***************************************************************************)
MonthNumber(mon) == CHOOSE m \in 1..12 : MonthAbbr[m] = mon

\* _date.replace(" ET", "")
RemoveZone(_date) == [_date EXCEPT !.rest = IF @ = " ET" THEN "" ELSE @]

\* datetime.strptime(s, "%b. %d, %Y %I:%M %p"): ValueError unless every element
\* is in range and nothing trails
strptime_site(s) ==
    IF /\ \E m \in 1..12 : MonthAbbr[m] = s.mon
       /\ s.year \in 1..9999
       /\ s.day >= 1
       /\ s.day <= DaysInMonth(s.year, MonthNumber(s.mon))
       /\ s.hour \in 1..12
       /\ s.minute \in 0..59
       /\ s.ampm \in {"AM", "PM"}
       /\ s.rest = ""
    THEN Return([year |-> s.year, month |-> MonthNumber(s.mon), day |-> s.day,
                 hour |-> (s.hour % 12) + (IF s.ampm = "PM" THEN 12 ELSE 0),
                 minute |-> s.minute, second |-> 0])
    ELSE Raise("ValueError")

NextDay(dt) ==
    IF dt.day < DaysInMonth(dt.year, dt.month)
    THEN [dt EXCEPT !.day = @ + 1]
    ELSE IF dt.month < 12
    THEN [dt EXCEPT !.month = @ + 1, !.day = 1]
    ELSE [dt EXCEPT !.year = @ + 1, !.month = 1, !.day = 1]

\* dt + timedelta(hours=h), 0 <= h < 24
PlusHours(dt, h) ==
    IF dt.hour + h < 24
    THEN [dt EXCEPT !.hour = @ + h]
    ELSE [NextDay(dt) EXCEPT !.hour = dt.hour + h - 24]

\* dt.strftime("%Y-%m-%dT%H:%M:%S.00Z")
strftime_canonical(dt) ==
    Digits(dt.year, 4) \o << "-" >> \o Digits(dt.month, 2) \o << "-" >>
    \o Digits(dt.day, 2) \o << "T" >> \o Digits(dt.hour, 2) \o << ":" >>
    \o Digits(dt.minute, 2) \o << ":" >> \o Digits(dt.second, 2)
    \o << ".", "0", "0", "Z" >>

convert_date_no_carry(_date) ==
    LET parsed == strptime_site(RemoveZone(_date))
    IN  IF parsed.exc # "" THEN parsed
        ELSE Return(strftime_canonical(
                 [parsed.val EXCEPT !.hour = (@ + ET_OFFSET_HOURS) % 24]))

convert_date_to_standard_format(_date) ==
    LET parsed == strptime_site(RemoveZone(_date))
    IN  IF parsed.exc # "" THEN parsed
        ELSE Return(strftime_canonical(PlusHours(parsed.val, ET_OFFSET_HOURS)))

\* positions of the canonical form YYYY-MM-DDTHH:MM:SS.00Z
CanonicalLiterals ==
    [i \in {5, 8, 11, 14, 17, 20, 21, 22, 23} |->
        CASE i \in {5, 8} -> "-"
          [] i = 11 -> "T"
          [] i \in {14, 17} -> ":"
          [] i = 20 -> "."
          [] i \in {21, 22} -> "0"
          [] OTHER -> "Z"]

MatchesCanonical(s) ==
    /\ Len(s) = 23
    /\ \A i \in 1..23 :
          IF i \in DOMAIN CanonicalLiterals
          THEN s[i] = CanonicalLiterals[i]
          ELSE IsDigit(s[i])

\* datetime.strptime(s, "%Y-%m-%dT%H:%M:%S.00Z")
strptime_canonical(s) ==
    IF ~MatchesCanonical(s) THEN Raise("ValueError")
    ELSE LET dt == [year |-> Number(SubSeq(s, 1, 4)), month |-> Number(SubSeq(s, 6, 7)),
                    day |-> Number(SubSeq(s, 9, 10)), hour |-> Number(SubSeq(s, 12, 13)),
                    minute |-> Number(SubSeq(s, 15, 16)), second |-> Number(SubSeq(s, 18, 19))]
         IN  IF /\ dt.year >= 1
                /\ dt.month \in 1..12
                /\ dt.day >= 1
                /\ dt.day <= DaysInMonth(dt.year, dt.month)
                /\ dt.hour \in 0..23
                /\ dt.minute \in 0..59
                /\ dt.second \in 0..61
             THEN Return(dt)
             ELSE Raise("ValueError")

(***************************************************************************)
(* AgeFilter.  _now is datetime.now(pytz.utc), in ticks; formatting it     *)
(* with %S and parsing it back keeps its whole seconds only.               *)
(***************************************************************************)
\* the datetime of a tick count, to the second (strftime of now, parsed back)
\* the year of the d-th day after the epoch, within the years of the model
YearOfDay(d) ==
    CHOOSE y \in EpochYear..(EpochYear + MaxYearSpan + 1) :
        DaysBeforeYear(y) <= d /\ d < DaysBeforeYear(y + 1)

\* the month of the d-th day (from 0) of year y
MonthOfDay(y, d) ==
    CHOOSE m \in 1..12 : DaysBeforeMonth(y, m) <= d /\ d < DaysBeforeMonth(y, m + 1)

DatetimeOfTicks(t) ==
    LET secs == t \div TicksPerSecond
        year == YearOfDay(secs \div 86400)
        dayOfYear == (secs \div 86400) - DaysBeforeYear(year)
        month == MonthOfDay(year, dayOfYear)
        sod == secs % 86400
    IN  [year |-> year, month |-> month, day |-> dayOfYear - DaysBeforeMonth(year, month) + 1,
         hour |-> sod \div 3600, minute |-> (sod % 3600) \div 60, second |-> sod % 60]

check_for_max_age_exclusive(_date, _max_age, _now) ==
    LET date_to_check == strptime_canonical(_date)
        now_time == strptime_canonical(strftime_canonical(DatetimeOfTicks(_now)))
    IN  IF date_to_check.exc # "" THEN date_to_check
        ELSE Return(Timestamp(now_time.val) - Timestamp(date_to_check.val) < _max_age)

check_for_max_age(_date, _max_age, _now) ==
    LET date_to_check == strptime_canonical(_date)
        now_time == strptime_canonical(strftime_canonical(DatetimeOfTicks(_now)))
    IN  IF date_to_check.exc # "" THEN date_to_check
        ELSE Return(Timestamp(now_time.val) - Timestamp(date_to_check.val) <= _max_age)

(***************************************************************************)
(* A call of one pure function: the pipeline's variables stand idle.       *)
(***************************************************************************)
PipelineIdle ==
    /\ pc = "unused"
    /\ parameters = [type |-> "NoneType"]
    /\ listing = << >>
    /\ cards = << >>
    /\ idx = 0
    /\ yielded_items = 0
    /\ max_oldness_seconds = 0
    /\ maximum_items_to_collect = 0
    /\ min_post_length = 0
    /\ output = << >>
    /\ fetchLog = << >>
    /\ stopReason = ""
    /\ raised = FALSE

(***************************************************************************)
(* SpecDate: convert_date_to_standard_format on every valid site date of   *)
(* the years EpochYear .. EpochYear + MaxYearSpan.                         *)
(***************************************************************************)
Minutes == {0, 13, 59}

SiteDates ==
    { d \in [mon : {MonthAbbr[m] : m \in 1..12}, day : 1..31,
             year : EpochYear..(EpochYear + MaxYearSpan), hour : 1..12,
             minute : Minutes, ampm : {"AM", "PM"}, rest : {" ET"}] :
        d.day <= DaysInMonth(d.year, MonthNumber(d.mon)) }

InitDate ==
    /\ PipelineIdle
    /\ now = 0
    /\ arg \in SiteDates
    /\ ret = Return(<< >>)
    /\ returned = FALSE

ConvertDate ==
    /\ ~returned
    /\ ret' = convert_date_to_standard_format(arg)
    /\ returned' = TRUE
    /\ UNCHANGED << pipelineVars, now, arg >>

SpecDate == InitDate /\ [][ConvertDate]_vars

\* C8: the normalised date of a valid site date has the canonical form
\* YYYY-MM-DDTHH:MM:SS.00Z, and parsed back it is exactly 4 hours after the
\* site date read without zone handling.
C8_FourHoursLater ==
    returned =>
        /\ ret.exc = ""
        /\ MatchesCanonical(ret.val)
        /\ strptime_canonical(ret.val).exc = ""
        /\ Timestamp(strptime_canonical(ret.val).val)
             = Timestamp(strptime_site(RemoveZone(arg)).val) + 4 * 3600

\* "Dec. 31, <EpochYear> 9:00 PM ET" crosses day, month and year
C8_Witness ==
    /\ returned
    /\ arg = [mon |-> "Dec", day |-> 31, year |-> 2023, hour |-> 9, minute |-> 0,
              ampm |-> "PM", rest |-> " ET"]
    /\ ret.val = << "2", "0", "2", "4", "-", "0", "1", "-", "0", "1", "T",
                    "0", "1", ":", "0", "0", ":", "0", "0", ".", "0", "0", "Z" >>

(***************************************************************************)
(* SpecAge: check_for_max_age around the boundary of the budget.           *)
(***************************************************************************)
AgeDates ==
    { [year |-> EpochYear, month |-> 7, day |-> 18, hour |-> 12, minute |-> 13, second |-> 0],
      [year |-> EpochYear, month |-> 12, day |-> 31, hour |-> 23, minute |-> 59, second |-> 58] }

InitAge ==
    /\ PipelineIdle
    /\ \E dt \in AgeDates, b \in 0..MaxBudget :
          /\ arg = [date |-> strftime_canonical(dt), max_age |-> b]
          /\ now \in (TicksPerSecond * Timestamp(dt) - MaxLate)
                       .. (TicksPerSecond * (Timestamp(dt) + b) + MaxLate)
    /\ ret = Return(FALSE)
    /\ returned = FALSE

CheckAge ==
    /\ ~returned
    /\ ret' = check_for_max_age(arg.date, arg.max_age, now)
    /\ returned' = TRUE
    /\ UNCHANGED << pipelineVars, now, arg >>

SpecAge == InitAge /\ [][CheckAge]_vars

\* the timestamp T of the call, in ticks
ArgTicks == TicksPerSecond * Timestamp(strptime_canonical(arg.date).val)

\* C7 as stated: true exactly when (current UTC time - T) <= B
C7_Original ==
    returned => (ret.val <=> (now - ArgTicks <= TicksPerSecond * arg.max_age))

\* C7, amended: check_for_max_age(T, B) is true exactly when the current UTC
\* time, cut to its whole second, minus T is <= B seconds; so it is true at
\* elapsed = B, false from one second past it, true for every future T.
C7_WholeSeconds ==
    returned =>
        /\ ret.exc = ""
        /\ ret.val <=> ((now \div TicksPerSecond) * TicksPerSecond - ArgTicks
                          <= TicksPerSecond * arg.max_age)
        /\ (now - ArgTicks = TicksPerSecond * arg.max_age) => ret.val
        /\ (now - ArgTicks >= TicksPerSecond * (arg.max_age + 1)) => ~ret.val
        /\ (now < ArgTicks) => ret.val

\* the boundary itself: elapsed time equal to a positive budget, admitted
C7_Witness ==
    /\ returned
    /\ arg.max_age > 0
    /\ now - ArgTicks = TicksPerSecond * arg.max_age
    /\ ret.val

(***************************************************************************)
(* ArticleExtractor: the author and the body.                              *)
(***************************************************************************)
RECURSIVE lstrip(_, _)
\* text.lstrip(chars): drops leading characters while they are in chars
lstrip(text, chars) ==
    IF text # << >> /\ text[1] \in chars
    THEN lstrip(Tail(text), chars)
    ELSE text

AuthorLabel == << "B", "y", ":", " " >>

\* soup.find(... "post-author-nick").text.lstrip("By: ")
ExtractAuthor(text) == lstrip(text, {AuthorLabel[i] : i \in 1..Len(AuthorLabel)})

WordChars == {"A", "B", "X", "Y", "Z", "M", "o", "r", "e", "n", "m", "_"} \cup
             {DigitChars[d] : d \in 1..10}

MoreOn == << "M", "o", "r", "e", " ", "o", "n", " " >>

\* re.match(r"^More on \w+(:)?$", text): "More on ", one or more word
\* characters, an optional colon, then the end or one newline before the end
MatchesMoreOn(text) ==
    /\ Len(text) > Len(MoreOn)
    /\ SubSeq(text, 1, Len(MoreOn)) = MoreOn
    /\ \E k \in (Len(MoreOn) + 1)..Len(text) :
          /\ \A i \in (Len(MoreOn) + 1)..k : text[i] \in WordChars
          /\ SubSeq(text, k + 1, Len(text)) \in
                { << >>, << ":" >>, << "\n" >>, << ":", "\n" >> }

RECURSIVE BodyLoopNoBreak(_, _, _)
\* the loop with `continue` where the code breaks on the boilerplate line
BodyLoopNoBreak(els, i, content) ==
    IF i > Len(els) THEN content
    ELSE IF els[i].name = "h2" THEN content
    ELSE IF els[i].name # "figure" /\ els[i].text # << >>
    THEN IF MatchesMoreOn(els[i].text)
         THEN BodyLoopNoBreak(els, i + 1, content)
         ELSE BodyLoopNoBreak(els, i + 1, content \o els[i].text \o << "\n" >>)
    ELSE BodyLoopNoBreak(els, i + 1, content)

RECURSIVE BodyLoop(_, _, _)
\* for el in content_paragraphs, from the i-th on, with content so far
BodyLoop(els, i, content) ==
    IF i > Len(els) THEN content
    ELSE IF els[i].name = "h2" THEN content
    ELSE IF els[i].name # "figure" /\ els[i].text # << >>
    THEN IF MatchesMoreOn(els[i].text)
         THEN content
         ELSE BodyLoop(els, i + 1, content \o els[i].text \o << "\n" >>)
    ELSE BodyLoop(els, i + 1, content)

ExtractBodyNoBreak(content_paragraphs) == BodyLoopNoBreak(content_paragraphs, 1, << >>)

ExtractBody(content_paragraphs) == BodyLoop(content_paragraphs, 1, << >>)

(***************************************************************************)
(* SpecBody: the body of every content container of up to MaxChildren      *)
(* direct children.                                                        *)
(***************************************************************************)
TextA == << "A" >>

TextB == << "B" >>

MoreOnXYZ == MoreOn \o << "X", "Y", "Z", ":" >>

Child(name, text) == [name |-> name, text |-> text]

Children ==
    { Child("p", TextA), Child("p", TextB), Child("p", << >>),
      Child("figure", TextA), Child("figure", MoreOnXYZ), Child("h2", TextA),
      Child("h2", << >>),
      Child("p", MoreOnXYZ),
      Child("p", MoreOn \o << "X", "Y", "Z" >>),             \* no colon: matches
      Child("p", MoreOnXYZ \o << " " >> \o TextB),           \* more text: no match
      Child("div", << "m", "o", "r", "e", " ", "o", "n", " ", "X", ":" >>) }

RECURSIVE SeqsUpTo(_, _)
\* the sequences over S of length at most n
SeqsUpTo(S, n) ==
    IF n = 0 THEN { << >> }
    ELSE LET shorter == SeqsUpTo(S, n - 1)
         IN  shorter \cup { Append(q, x) : q \in shorter, x \in S }

InitBody ==
    /\ PipelineIdle
    /\ now = 0
    /\ arg \in SeqsUpTo(Children, MaxChildren)
    /\ ret = << >>
    /\ returned = FALSE

CallExtractBody ==
    /\ ~returned
    /\ ret' = ExtractBody(arg)
    /\ returned' = TRUE
    /\ UNCHANGED << pipelineVars, now, arg >>

SpecBody == InitBody /\ [][CallExtractBody]_vars

\* a child at which the walk ends: a heading, or a text-bearing non-figure
\* child whose whole text is the boilerplate
EndsWalk(el) ==
    \/ el.name = "h2"
    \/ el.name # "figure" /\ el.text # << >> /\ MatchesMoreOn(el.text)

\* the first child that ends the walk, or one past the last child
WalkEnd(els) ==
    IF \E i \in 1..Len(els) : EndsWalk(els[i])
    THEN CHOOSE i \in 1..Len(els) :
            EndsWalk(els[i]) /\ \A j \in 1..(i - 1) : ~EndsWalk(els[j])
    ELSE Len(els) + 1

Retained(els, i) == i < WalkEnd(els) /\ els[i].name # "figure" /\ els[i].text # << >>

RECURSIVE Flatten(_, _)
\* text + newline of the retained children among the first n, in document order
Flatten(els, n) ==
    IF n = 0 THEN << >>
    ELSE Flatten(els, n - 1)
         \o (IF Retained(els, n) THEN els[n].text \o << "\n" >> ELSE << >>)

NameChars == {"B", "y", ":", " ", "o"}

InitAuthor ==
    /\ PipelineIdle
    /\ now = 0
    /\ \E name \in SeqsUpTo(NameChars, MaxNameLen) : arg \in {name, AuthorLabel \o name}
    /\ ret = << >>
    /\ returned = FALSE

CallExtractAuthor ==
    /\ ~returned
    /\ ret' = ExtractAuthor(arg)
    /\ returned' = TRUE
    /\ UNCHANGED << pipelineVars, now, arg >>

SpecAuthor == InitAuthor /\ [][CallExtractAuthor]_vars

HasLabel(text) ==
    Len(text) >= Len(AuthorLabel) /\ SubSeq(text, 1, Len(AuthorLabel)) = AuthorLabel

\* C10: the author is the element's text with only the leading label "By: "
\* removed when present, and the text unchanged when it has no label.
C10_OnlyLabelRemoved ==
    returned =>
        ret = IF HasLabel(arg)
              THEN SubSeq(arg, Len(AuthorLabel) + 1, Len(arg))
              ELSE arg

(***************************************************************************)
(* Configuration.  A Python value is a record with its type; a dict holds  *)
(* its items as a set of <<key, value>> pairs with distinct keys.          *)
(***************************************************************************)
NoneValue == [type |-> "NoneType"]

Dict(items) == [type |-> "dict", items |-> items]

List(n) == [type |-> "list", len |-> n]

\* bool(v)
Truthy(v) ==
    CASE v.type = "NoneType" -> FALSE
      [] v.type = "dict" -> v.items # {}
      [] v.type = "list" -> v.len > 0
      [] OTHER -> TRUE

\* d.get(key, default)
Get(d, key, default) ==
    IF \E kv \in d.items : kv[1] = key
    THEN (CHOOSE kv \in d.items : kv[1] = key)[2]
    ELSE default

\* a reader that falls back to the default on a falsy value (`or`)
read_parameters_or_default(params) ==
    IF Truthy(params) /\ params.type = "dict"
    THEN LET orDefault(v, d) == IF v = 0 THEN d ELSE v
         IN  << orDefault(Get(params, "max_oldness_seconds", 0), DEFAULT_OLDNESS_SECONDS),
                orDefault(Get(params, "maximum_items_to_collect", 0), DEFAULT_MAXIMUM_ITEMS),
                orDefault(Get(params, "min_post_length", 0), DEFAULT_MIN_POST_LENGTH) >>
    ELSE << DEFAULT_OLDNESS_SECONDS, DEFAULT_MAXIMUM_ITEMS, DEFAULT_MIN_POST_LENGTH >>

\* << max_oldness_seconds, maximum_items_to_collect, min_post_length >>
read_parameters(params) ==
    IF Truthy(params) /\ params.type = "dict"
    THEN << Get(params, "max_oldness_seconds", DEFAULT_OLDNESS_SECONDS),
            Get(params, "maximum_items_to_collect", DEFAULT_MAXIMUM_ITEMS),
            Get(params, "min_post_length", DEFAULT_MIN_POST_LENGTH) >>
    ELSE << DEFAULT_OLDNESS_SECONDS, DEFAULT_MAXIMUM_ITEMS, DEFAULT_MIN_POST_LENGTH >>

(***************************************************************************)
(* SpecParams: read_parameters on None, on non-mappings, and on every      *)
(* mapping of the option names to values 0 .. MaxValue.                    *)
(***************************************************************************)
OptionKeys == << "max_oldness_seconds", "maximum_items_to_collect", "min_post_length" >>

KeySet == {OptionKeys[i] : i \in 1..3} \cup {"unknown_option"}

\* the dicts with keys among KeySet and values 0 .. MaxValue
Dicts ==
    { Dict({ << k, f[k] >> : k \in ks }) :
        ks \in SUBSET KeySet, f \in [KeySet -> 0..MaxValue] }

InitParams ==
    /\ PipelineIdle
    /\ now = 0
    /\ arg \in Dicts \cup {NoneValue, List(0), List(1)}
    /\ ret = << >>
    /\ returned = FALSE

CallReadParameters ==
    /\ ~returned
    /\ ret' = read_parameters(arg)
    /\ returned' = TRUE
    /\ UNCHANGED << pipelineVars, now, arg >>

SpecParams == InitParams /\ [][CallReadParameters]_vars

Present(v, key) == v.type = "dict" /\ \E kv \in v.items : kv[1] = key

ValueOf(v, key) == (CHOOSE kv \in v.items : kv[1] = key)[2]

\* C6: each option is resolved on its own: the caller's value when the
\* mapping has it, else its default (360, 25, 10); None, an empty mapping
\* and a non-mapping give the three defaults.
C6_OptionsResolved ==
    returned =>
        /\ \A i \in 1..3 :
              ret[i] = IF Present(arg, OptionKeys[i])
                       THEN ValueOf(arg, OptionKeys[i])
                       ELSE << 360, 25, 10 >>[i]
        /\ (arg.type # "dict" \/ arg.items = {}) => ret = << 360, 25, 10 >>

\* a mapping that sets one option, to 0, and leaves the other two out
C6_Witness ==
    /\ returned
    /\ arg = Dict({ << "maximum_items_to_collect", 0 >> })
    /\ ret = << 360, 0, 10 >>

(***************************************************************************)
(* The site, as the pipeline sees it.  An article page is the record of    *)
(* whether its GET answers, which of the four elements it has, and its     *)
(* date; an anchor of the listing page may lack its href.                  *)
(***************************************************************************)
ArticleElements == {"post-date", "post-title", "post-author-nick", "content-container"}

\* "Jul. 18, <EpochYear> 8:13 AM ET", the date of the module's docstring
NewDate == [mon |-> "Jul", day |-> 18, year |-> EpochYear, hour |-> 8, minute |-> 13,
            ampm |-> "AM", rest |-> " ET"]

\* 195 minutes earlier
OldDate == [NewDate EXCEPT !.hour = 4, !.minute = 58]

Page(href, reachable, elements, date) ==
    [href |-> href, reachable |-> reachable, elements |-> elements, date |-> date]

NewPage == Page(TRUE, TRUE, ArticleElements, NewDate)

OldPage == Page(TRUE, TRUE, ArticleElements, OldDate)

GoodPages == {NewPage, OldPage}

FaultyPages ==
    { Page(TRUE, FALSE, ArticleElements, NewDate),                       \* GET fails
      Page(TRUE, TRUE, ArticleElements \ {"post-title"}, NewDate),        \* element missing
      Page(TRUE, TRUE, ArticleElements, [NewDate EXCEPT !.rest = " EDT"]), \* date malformed
      Page(FALSE, TRUE, ArticleElements, NewDate) }                       \* anchor without href

Faults(l) == Cardinality({i \in 1..Len(l) : l[i] \in FaultyPages})

Listings ==
    { l \in SeqsUpTo(GoodPages \cup FaultyPages, MaxLinks) : Faults(l) <= MaxFaults }

\* the clock when query is called: 360 s after NewDate, 12060 s after OldDate
NowStart ==
    TicksPerSecond * (Timestamp(PlusHours(strptime_site(RemoveZone(NewDate)).val,
                                          ET_OFFSET_HOURS))
                      + DEFAULT_OLDNESS_SECONDS)

CallerParameters ==
    {NoneValue} \cup
    { Dict(cap \cup old) :
        cap \in {{}} \cup {{ << "maximum_items_to_collect", c >> } : c \in 0..MaxCap},
        old \in {{}, { << "max_oldness_seconds", TEST_OLDNESS_SECONDS >> }} }

(***************************************************************************)
(* ArticleExtractor.                                                       *)
(***************************************************************************)
Item(url, created_at) ==
    [type |-> "Item", url |-> url, created_at |-> created_at, domain |-> "seekingalpha.com"]

\* every exception the fetches and lookups raise derives from Exception
ExceptionClasses == {"ConnectionError", "AttributeError", "ValueError", "KeyError"}

\* the try block of request_content_with_timeout
RequestContentBody(_url, page, _max_age, _now) ==
    IF ~page.reachable THEN Raise("ConnectionError")
    ELSE IF "post-date" \notin page.elements THEN Raise("AttributeError")
    ELSE LET post_date == convert_date_to_standard_format(page.date)
         IN  IF post_date.exc # "" THEN post_date
             ELSE LET fresh == check_for_max_age(post_date.val, _max_age, _now)
                  IN  IF fresh.exc # "" THEN fresh
                      ELSE IF ~fresh.val THEN Return(NoneValue)
                      ELSE IF ArticleElements \ page.elements # {}
                      THEN Raise("AttributeError")
                      ELSE Return(Item(_url, post_date.val))

\* request_content_with_timeout: except Exception logs, and None is returned
request_content_with_timeout(_url, page, _max_age, _now) ==
    LET r == RequestContentBody(_url, page, _max_age, _now)
    IN  IF r.exc \in ExceptionClasses THEN Return(NoneValue) ELSE r

\* the budgets and clock values an invocation can meet
Budgets == {DEFAULT_OLDNESS_SECONDS, TEST_OLDNESS_SECONDS}

ClockValues == {NowStart + TicksPerSecond * k : k \in 0..MaxElapsed}

\* request_content_with_timeout on every input of the model, computed once
ExtractorRuns ==
    { << << u, page, b, n >>, request_content_with_timeout(u, page, b, n) >> :
        u \in 1..MaxLinks, page \in GoodPages \cup FaultyPages,
        b \in Budgets, n \in ClockValues }

Extracted(_url, page, _max_age, _now) ==
    (CHOOSE run \in ExtractorRuns : run[1] = << _url, page, _max_age, _now >>)[2]

(***************************************************************************)
(* ListingScanner and Pipeline.                                            *)
(***************************************************************************)
\* parse_entry_for_elements, after the extractor returned: `continue` for `break`
AfterItemContinue(item) == IF Truthy(item) THEN "yield" ELSE "continue"

\* parse_entry_for_elements, after the extractor returned
AfterItem(item) == IF Truthy(item) THEN "yield" ELSE "break"

\* except Exception of parse_entry_for_elements
ParseEntryCatches(e) == e \in ExceptionClasses

\* an except clause that lets a failed GET through
CatchesLookupErrorsOnly(e) == e \in {"AttributeError", "KeyError", "ValueError"}

\* except Exception of request_entries_with_timeout
RequestEntriesCatches(e) == e \in ExceptionClasses

\* query's test after a yield, with > for >=
CapReachedStrict(yielded, cap) == yielded > cap

\* query's test after a yield, one too early
CapReachedEarly(yielded, cap) == yielded + 1 >= cap

\* query's test after a yield
CapReached(yielded, cap) == yielded >= cap

Init ==
    /\ pc = "idle"
    /\ parameters = NoneValue
    /\ listing = << >>
    /\ cards = << >>
    /\ idx = 0
    /\ yielded_items = 0
    /\ max_oldness_seconds = 0
    /\ maximum_items_to_collect = 0
    /\ min_post_length = 0
    /\ output = << >>
    /\ fetchLog = << >>
    /\ stopReason = ""
    /\ raised = FALSE
    /\ now = NowStart
    /\ arg = << >>
    /\ ret = << >>
    /\ returned = FALSE

\* the generator chain ends; an exception no handler caught reaches the caller
Finish(reason, escaped) ==
    /\ pc' = "done"
    /\ stopReason' = reason
    /\ raised' = escaped

\* the caller calls query(parameters) while the site serves some listing page;
\* the generator is created and none of its code has run yet
Call ==
    /\ pc = "idle"
    /\ parameters' \in CallerParameters
    /\ listing' \in Listings
    /\ pc' = "new"
    /\ UNCHANGED << cards, idx, yielded_items, max_oldness_seconds,
                    maximum_items_to_collect, min_post_length, output, fetchLog,
                    stopReason, raised, now, arg, ret, returned >>

\* the caller's first pull: query runs up to its async for
Start ==
    /\ pc = "new"
    /\ LET p == read_parameters(parameters)
       IN  /\ max_oldness_seconds' = p[1]
           /\ maximum_items_to_collect' = p[2]
           /\ min_post_length' = p[3]
    /\ yielded_items' = 0
    /\ pc' = "listing"
    /\ UNCHANGED << parameters, listing, cards, idx, output, fetchLog, stopReason,
                    raised, now, arg, ret, returned >>

\* request_entries_with_timeout: the GET of the listing page and find_all
FetchListing ==
    /\ pc = "listing"
    /\ \E answered \in BOOLEAN :
          IF answered
          THEN /\ cards' = listing
               /\ idx' = 1
               /\ pc' = "scan"
               /\ UNCHANGED << stopReason, raised >>
          ELSE /\ Finish("listing_failed", ~RequestEntriesCatches("ConnectionError"))
               /\ UNCHANGED << cards, idx >>
    /\ UNCHANGED << parameters, listing, yielded_items, max_oldness_seconds,
                    maximum_items_to_collect, min_post_length, output, fetchLog,
                    now, arg, ret, returned >>

\* an exception raised in the loop of parse_entry_for_elements
ScanRaises(e) ==
    Finish("scan_error", ~ParseEntryCatches(e) /\ ~RequestEntriesCatches(e))

\* one turn of `for card in _cards`, up to the yield that reaches the caller
ScanStep ==
    /\ pc = "scan"
    /\ IF idx > Len(cards)
       THEN /\ Finish("exhausted", FALSE)
            /\ UNCHANGED << idx, yielded_items, output, fetchLog >>
       ELSE IF ~cards[idx].href
       THEN /\ ScanRaises("KeyError")
            /\ UNCHANGED << idx, yielded_items, output, fetchLog >>
       ELSE LET r == Extracted(idx, cards[idx], max_oldness_seconds, now)
            IN  IF r.exc # ""
                THEN /\ ScanRaises(r.exc)
                     /\ fetchLog' = Append(fetchLog, [url |-> idx, result |-> NoneValue])
                     /\ UNCHANGED << idx, yielded_items, output >>
                ELSE /\ fetchLog' = Append(fetchLog, [url |-> idx, result |-> r.val])
                     /\ CASE AfterItem(r.val) = "yield" ->
                               /\ yielded_items' = yielded_items + 1
                               /\ output' = Append(output, r.val)
                               /\ pc' = "yielded"
                               /\ UNCHANGED << idx, stopReason, raised >>
                          [] AfterItem(r.val) = "break" ->
                               /\ Finish("no_record", FALSE)
                               /\ UNCHANGED << idx, yielded_items, output >>
                          [] OTHER ->
                               /\ idx' = idx + 1
                               /\ UNCHANGED << pc, stopReason, raised, yielded_items, output >>
    /\ UNCHANGED << parameters, listing, cards, max_oldness_seconds,
                    maximum_items_to_collect, min_post_length, now, arg, ret, returned >>

\* the caller's next pull: query logs, tests the cap, and asks for the next item
Resume ==
    /\ pc = "yielded"
    /\ IF CapReached(yielded_items, maximum_items_to_collect)
       THEN /\ Finish("cap", FALSE)
            /\ UNCHANGED idx
       ELSE /\ idx' = idx + 1
            /\ pc' = "scan"
            /\ UNCHANGED << stopReason, raised >>
    /\ UNCHANGED << parameters, listing, cards, yielded_items, max_oldness_seconds,
                    maximum_items_to_collect, min_post_length, output, fetchLog,
                    now, arg, ret, returned >>

\* time passes while the invocation is under way
Tick ==
    /\ pc \notin {"idle", "done"}
    /\ now < NowStart + TicksPerSecond * MaxElapsed
    /\ now' = now + TicksPerSecond
    /\ UNCHANGED << pipelineVars, arg, ret, returned >>

Pull == Call \/ Start \/ FetchListing \/ ScanStep \/ Resume

Next == Call \/ Start \/ FetchListing \/ ScanStep \/ Resume \/ Tick

Spec == Init /\ [][Next]_vars

\* a caller that keeps pulling
FairSpec == Init /\ [][Next]_vars /\ WF_vars(Pull)

(***************************************************************************)
(* Properties of the pipeline.                                             *)
(***************************************************************************)
Done == pc = "done"

\* the scan came to a link that gave no record: the extractor returned None,
\* or the anchor had no href to fetch
EarlyExit ==
    \/ \E i \in 1..Len(fetchLog) : ~Truthy(fetchLog[i].result)
    \/ pc = "done" /\ idx \in 1..Len(cards) /\ ~cards[idx].href

\* C1 as stated: one invocation yields at most maximum_items_to_collect
\* records, for every value >= 0 of it.
C1_AtMostCap ==
    pc \notin {"idle", "new"} => Len(output) <= maximum_items_to_collect

\* C2: no exception reaches the caller, and when the listing page is
\* unreachable or the first link gives no record, the invocation ends with
\* no record yielded.
C2_NothingRaised ==
    /\ ~raised
    /\ (Done /\ stopReason = "listing_failed") => output = << >>
    /\ (Done /\ listing # << >> /\ stopReason # "listing_failed"
          /\ (~listing[1].href \/ ~Truthy(fetchLog[1].result))) => output = << >>
    /\ (Done /\ listing # << >> /\ stopReason # "listing_failed"
          /\ listing[1] \in FaultyPages) => output = << >>

\* the first link's date is malformed, a fresh link follows, nothing is yielded
C2_Witness ==
    /\ Done
    /\ ~raised
    /\ Len(listing) >= 2
    /\ listing[1].date.rest # " ET"
    /\ listing[2] = NewPage
    /\ Len(fetchLog) = 1
    /\ output = << >>

\* C3: the scan fetches the links in document order, yields the record of
\* each, and fetches and yields nothing after the first link that gives no
\* record; it never yields more records than the listing has links.
C3_StopsAtFirstMiss ==
    /\ \A i \in 1..Len(fetchLog) :
          /\ fetchLog[i].url = i
          /\ i < Len(fetchLog) => Truthy(fetchLog[i].result)
          /\ \A j \in 1..i : cards[j].href
    /\ (Done /\ EarlyExit) =>
          /\ Len(output) = Cardinality({i \in 1..Len(fetchLog) : Truthy(fetchLog[i].result)})
          /\ Len(fetchLog) <= idx
          /\ idx <= Len(cards)
    /\ \A i \in 1..Len(output) : output[i] = fetchLog[i].result
    /\ Len(output) <= Len(fetchLog)
    /\ Len(fetchLog) <= Len(listing)

\* a stale link stopped the scan although the link after it is fresh
C3_Witness ==
    /\ Done
    /\ stopReason = "no_record"
    /\ Len(fetchLog) = 2
    /\ Len(output) = 1
    /\ listing[2] = OldPage
    /\ Len(listing) >= 3
    /\ listing[3] = NewPage
    /\ check_for_max_age(convert_date_to_standard_format(NewDate).val,
                         max_oldness_seconds, now).val

\* page is fresh at every clock value of the invocation
AlwaysFresh(page, budget) ==
    /\ page \in GoodPages
    /\ check_for_max_age(convert_date_to_standard_format(page.date).val, budget,
                         NowStart + TicksPerSecond * MaxElapsed).val

\* page is stale at every clock value of the invocation
AlwaysStale(page, budget) ==
    /\ page \in GoodPages
    /\ ~check_for_max_age(convert_date_to_standard_format(page.date).val, budget,
                          NowStart).val

\* the first f links are fresh, the next is stale, and 1 <= cap <= f
FreshThenStale(f) ==
    /\ f + 1 <= Len(listing)
    /\ \A i \in 1..f : AlwaysFresh(listing[i], max_oldness_seconds)
    /\ AlwaysStale(listing[f + 1], max_oldness_seconds)
    /\ maximum_items_to_collect \in 1..f

\* C4: with the first f links fresh, the next stale and 1 <= cap <= f, a
\* caller that iterates to the end receives exactly cap values, the Item of
\* each of the first cap links in order, and the stale link is never fetched.
C4_ExactlyCap ==
    \A f \in 1..Len(listing) :
        (Done /\ stopReason # "listing_failed" /\ FreshThenStale(f)) =>
            /\ Len(output) = maximum_items_to_collect
            /\ \A i \in 1..Len(output) : output[i].type = "Item" /\ output[i].url = i
            /\ \A i \in 1..Len(fetchLog) : fetchLog[i].url # f + 1

\* the spec's scenario: budget 12000, cap 2, three fresh links, then a stale one
C4_Witness ==
    /\ Done
    /\ max_oldness_seconds = 12000
    /\ maximum_items_to_collect = 2
    /\ listing = << NewPage, NewPage, NewPage, OldPage >>
    /\ FreshThenStale(3)
    /\ Len(output) = 2
    /\ Len(fetchLog) = 2

\* C5 as stated: at its end, the scan's early exit has fired or the number
\* of yielded records has reached the cap.
C5_Original ==
    Done => (EarlyExit \/ yielded_items >= maximum_items_to_collect)

\* the scan ran out of links: every anchor it found gave a record (none was
\* found when the listing page could not be fetched)
OutOfLinks ==
    /\ Len(fetchLog) = Len(cards)
    /\ \A i \in 1..Len(fetchLog) : Truthy(fetchLog[i].result)

\* C5, amended: with a caller that keeps pulling, query ends, and at its end
\* the early exit has fired, or the cap is reached, or the scan ran out of
\* links.
C5_EndsForAReason ==
    /\ <>Done
    /\ [](Done => (EarlyExit \/ yielded_items >= maximum_items_to_collect \/ OutOfLinks))

\* the invocation ended having yielded every link of the listing, under the cap
C5_Witness ==
    /\ Done
    /\ ~EarlyExit
    /\ Len(listing) = 2
    /\ Len(output) = 2
    /\ yielded_items < maximum_items_to_collect

====
